---- MODULE Spec2Model ----
(***************************************************************************)
(* Booking engine of the maid-services Streamlit application (src/app.py). *)
(*                                                                         *)
(* The bookings table is a JSON file kept in a GitHub repository.  Every   *)
(* read (gh_get) returns the rows together with the blob sha of the file;  *)
(* every write (gh_put) sends the sha the writer read, and the server      *)
(* accepts the write only when that sha is still the sha of the file.      *)
(* Independent sessions (Clients) run create_booking against that file;    *)
(* each HTTP round trip and the SMTP exchange is one atomic step.          *)
(*                                                                         *)
(* Times of day are minutes since midnight; their "HH:MM" text form is the *)
(* pair <<hours, minutes>>.                                                *)
(***************************************************************************)
EXTENDS Integers, Sequences, FiniteSets, TLC

VARIABLES
    bookings,   \* rows of data/bookings.json, as stored on the server
    users,      \* rows of data/users.json, as stored on the server
    workers,    \* rows of data/workers.json, as stored on the server
    outbox,     \* confirmation mails handed to the SMTP server
    now,        \* the last instant datetime.utcnow() returned, in microseconds
    calls,      \* number of calls (bookings, sign-ups, profile saves) made so far
    pc,         \* per client: position inside create_booking
    req,        \* per client: arguments of the running create_booking call
    loc,        \* per client: locals of the running create_booking call
    result,     \* per client: how the last create_booking call ended
    op,         \* per client: the running register_user or upsert_worker call
    shown,      \* per client: the availability the booking page last computed
    seen        \* per client: the sha of the read the slot was validated on

vars ==
    <<bookings, users, workers, outbox, now, calls, pc, req, loc, result, op, shown, seen>>

\* what create_booking never touches
tables == <<users, workers, op, shown>>

\* and what it does not touch once the slot is validated
others == <<tables, seen>>

----------------------------------------------------------------------------
(* Program constants *)

HALF_HOUR == 30

MinutesPerDay == 1440

----------------------------------------------------------------------------
(* Bounds of the model *)

MaxCalls == 2

Clients == {"c1", "c2"}

\* st.session_state["auth_user"] of each session
auth_user(c) ==
    IF c = "c1" THEN [username |-> "asha", email |-> "asha@example.org"]
    ELSE [username |-> "ravi", email |-> ""]

Workers ==
    { [username |-> "Ann", daily_start |-> <<22, 30>>, daily_end |-> <<23, 30>>],
      [username |-> "bob", daily_start |-> <<23, 0>>,  daily_end |-> <<23, 30>>] }

Dates == {1}

StartTimes == {1350, 1380}

\* durations the booking page offers, in minutes
Durations == {30, 90}

\* durations a direct caller of create_booking may pass
AnyDurations == Durations \cup {45}

----------------------------------------------------------------------------
(* Conversions *)

TimeOf(h, m) == h * 60 + m

ParseHM(s) == TimeOf(s[1], s[2])

Strftime(t) == <<t \div 60, t % 60>>

IsoFormat(d) == <<2026, 1, 4 + d>>

Lower(name) ==
    CASE name = "Ann" -> "ann"
      [] name = "Asha" -> "asha"
      [] OTHER -> name

\* (datetime.combine(date, t) + delta).time(): the date part is dropped
TimeAfter(t, delta) == (t + delta) % MinutesPerDay

Max(a, b) == IF a >= b THEN a ELSE b

Min(a, b) == IF a <= b THEN a ELSE b

----------------------------------------------------------------------------
(* Pure helpers of the availability engine *)

worker_daily_range(worker) ==
    <<ParseHM(worker.daily_start), ParseHM(worker.daily_end)>>

\* the loop stops one slot early
RECURSIVE SlotLoop_mut(_, _)
SlotLoop_mut(cur, end) ==
    IF cur < end - HALF_HOUR
    THEN <<cur % MinutesPerDay>> \o SlotLoop_mut(cur + HALF_HOUR, end)
    ELSE <<>>

RECURSIVE SlotLoop(_, _)
SlotLoop(cur, end) ==
    IF cur <= end - HALF_HOUR
    THEN <<cur % MinutesPerDay>> \o SlotLoop(cur + HALF_HOUR, end)
    ELSE <<>>

generate_slots(worker) ==
    LET range == worker_daily_range(worker)
    IN  SlotLoop(range[1], range[2])

\* intervals that touch count as overlapping
is_overlap_mut(s1, e1, s2, e2) == Max(s1, s2) <= Min(e1, e2)

is_overlap(s1, e1, s2, e2) == Max(s1, s2) < Min(e1, e2)

\* the status of the booking is not looked at
IsBooked_mut(b, worker_username, day) ==
    /\ Lower(b.worker) = Lower(worker_username)
    /\ b.date = day

IsBooked(b, worker_username, day) ==
    /\ Lower(b.worker) = Lower(worker_username)
    /\ b.date = day
    /\ b.status # "cancelled"

worker_booked_spans(rows, worker_username, date) ==
    LET day == IsoFormat(date)
        Keep(b) == IsBooked(b, worker_username, day)
        kept == SelectSeq(rows, Keep)
    IN  [i \in 1..Len(kept) |-> <<ParseHM(kept[i].start), ParseHM(kept[i].end)>>]

FitsDay(st_t, en_t, day_start, day_end) ==
    ~(st_t < day_start \/ en_t > day_end)

available_start_slots(rows, worker, date, dur) ==
    LET slots == generate_slots(worker)
        spans == worker_booked_spans(rows, worker.username, date)
        range == worker_daily_range(worker)
        Free(t) ==
            LET st_t == t
                en_t == TimeAfter(t, dur)
            IN  /\ FitsDay(st_t, en_t, range[1], range[2])
                /\ ~ \E i \in 1..Len(spans) :
                        is_overlap(st_t, en_t, spans[i][1], spans[i][2])
    IN  SelectSeq(slots, Free)

Range(s) == {s[i] : i \in 1..Len(s)}

----------------------------------------------------------------------------
(* Storage: the GitHub contents API *)

\* the blob sha identifies the content of the file
BlobSha(rows) == rows

\* the server takes a write only when the sha sent is the sha of the file it
\* holds; any other write is answered 409
server_accepts(sha) == sha = BlobSha(bookings)

\* the status of the response is not looked at
gh_put_raises_mut(sha) == FALSE

\* gh_put raises unless the server answers 200/201
gh_put_raises(sha) == ~server_accepts(sha)

----------------------------------------------------------------------------
(* create_booking *)

NoReq == [user |-> "", email |-> "", worker |-> "", date |-> 0, start |-> 0, dur |-> 0]

NoRow ==
    [id |-> 0, user |-> "", worker |-> "", date |-> <<0, 0, 0>>, start |-> <<0, 0>>,
     end |-> <<0, 0>>, status |-> ""]

NoLoc == [avail |-> <<>>, rows |-> <<>>, sha |-> <<>>, row |-> NoRow, mail |-> ""]

NoResult == [kind |-> "none", ok |-> FALSE, msg |-> ""]

WorkerOf(r) == CHOOSE w \in Workers : w.username = r.worker

\* the call ends: its arguments and locals are gone, its outcome stays
Finish(c, res) ==
    /\ pc' = [pc EXCEPT ![c] = "done"]
    /\ result' = [result EXCEPT ![c] = res]
    /\ req' = [req EXCEPT ![c] = NoReq]

\* the request is refused only when nothing at all is available
SlotUnavailable_mut(avail, start) == avail = <<>>

\* line 212: start not in available_start_slots(...)
SlotUnavailable(avail, start) == start \notin Range(avail)

\* lines 207-213: the call, with the availability recomputed from a fresh read
Validate(c, user, worker, date, start, dur) ==
    /\ pc[c] \in {"idle", "done"}
    /\ calls < MaxCalls
    /\ calls' = calls + 1
    /\ LET avail == available_start_slots(bookings, worker, date, dur)
       IN  IF SlotUnavailable(avail, start)
           THEN /\ Finish(c, [kind |-> "returned", ok |-> FALSE,
                              msg |-> "Selected slot is no longer available."])
                /\ loc' = [loc EXCEPT ![c] = NoLoc]
           ELSE /\ pc' = [pc EXCEPT ![c] = "load"]
                /\ req' = [req EXCEPT ![c] =
                              [user |-> user.username, email |-> user.email,
                               worker |-> worker.username, date |-> date,
                               start |-> start, dur |-> dur]]
                /\ loc' = [loc EXCEPT ![c] = [NoLoc EXCEPT !.avail = avail]]
                /\ result' = [result EXCEPT ![c] = NoResult]
    /\ UNCHANGED <<bookings, outbox, now>>
    /\ UNCHANGED tables

\* lines 216-226: the new row, its id taken from the clock reading t
NewRow_mut(t, r) ==
    [id |-> t, user |-> r.user, worker |-> r.worker,
     date |-> IsoFormat(r.date), start |-> Strftime(r.start),
     end |-> Strftime(TimeAfter(r.start, r.dur)),
     status |-> "pending"]

NewRow(t, r) ==
    [id |-> t, user |-> r.user, worker |-> r.worker,
     date |-> IsoFormat(r.date), start |-> Strftime(r.start),
     end |-> Strftime(TimeAfter(r.start, r.dur)),
     status |-> "confirmed"]

\* line 227: rows.append(row)
AppendRow_mut(rows, row) == <<row>>

AppendRow(rows, row) == Append(rows, row)

\* lines 215-227: second read, the row built and appended in memory
LoadAt(c, t) ==
    /\ pc[c] = "load"
    /\ now' = t
    /\ LET row == NewRow(t, req[c])
       IN  loc' = [loc EXCEPT ![c].rows = AppendRow(bookings, row),
                              ![c].sha = BlobSha(bookings),
                              ![c].row = row]
    /\ pc' = [pc EXCEPT ![c] = "save"]
    /\ UNCHANGED <<bookings, outbox, calls, req, result>>
    /\ UNCHANGED others

\* the clock has moved on since it was last read
Load(c) == LoadAt(c, now + 1)

\* the clock is read within the microsecond of the previous reading
LoadSameInstant(c) == now > 0 /\ LoadAt(c, now)

\* line 228: save_table -> gh_put
Save(c) ==
    /\ pc[c] = "save"
    /\ bookings' = IF server_accepts(loc[c].sha) THEN loc[c].rows ELSE bookings
    /\ IF gh_put_raises(loc[c].sha)
       THEN /\ Finish(c, [kind |-> "raised", ok |-> FALSE, msg |-> "GitHub PUT failed"])
            /\ loc' = [loc EXCEPT ![c] = NoLoc]
       ELSE /\ pc' = [pc EXCEPT ![c] = "notify"]
            /\ UNCHANGED <<result, req, loc>>
    /\ UNCHANGED <<outbox, calls, now>>
    /\ UNCHANGED others

\* the qualifier is left out
BookingMessage_mut(sent) == "Booking created successfully."

BookingMessage(sent) ==
    IF sent THEN "Booking created successfully."
    ELSE "Booking created successfully. (Email not sent; check SMTP settings in secrets.toml.)"

\* the mail is sent before save_table has run
Notify_mut(c, outcome) ==
    /\ pc[c] \in {"save", "notify"}
    /\ req[c].email = "" => outcome = "skipped"
    /\ LET sent == (outcome = "delivered")
       IN  /\ loc' = [loc EXCEPT ![c] = [NoLoc EXCEPT !.row = loc[c].row, !.mail = outcome]]
           /\ outbox' = IF sent THEN Append(outbox, loc[c].row) ELSE outbox
           /\ Finish(c, [kind |-> "returned", ok |-> TRUE, msg |-> BookingMessage(sent)])
    /\ UNCHANGED <<bookings, calls, now>>
    /\ UNCHANGED others

\* lines 230-270: best-effort mail, then the success return.  The mail is
\* delivered, fails with an exception that is swallowed, or is skipped (no
\* address, or no SMTP settings)
Notify(c, outcome) ==
    /\ pc[c] = "notify"
    /\ req[c].email = "" => outcome = "skipped"
    /\ LET sent == (outcome = "delivered")
       IN  /\ loc' = [loc EXCEPT ![c] = [NoLoc EXCEPT !.row = loc[c].row, !.mail = outcome]]
           /\ outbox' = IF sent THEN Append(outbox, loc[c].row) ELSE outbox
           /\ Finish(c, [kind |-> "returned", ok |-> TRUE, msg |-> BookingMessage(sent)])
    /\ UNCHANGED <<bookings, calls, now>>
    /\ UNCHANGED others

----------------------------------------------------------------------------
(* Environment *)

\* the status flag of a stored booking is set to cancelled
Cancel(i) ==
    /\ i \in 1..Len(bookings)
    /\ bookings[i].status = "confirmed"
    /\ bookings' = [bookings EXCEPT ![i].status = "cancelled"]
    /\ UNCHANGED <<outbox, now, calls, pc, req, loc, result>>
    /\ UNCHANGED others

----------------------------------------------------------------------------

NoOp == [pc |-> "idle", kind |-> "none", name |-> "", rows |-> <<>>, sha |-> <<>>, res |-> "none"]

NoWorker == [username |-> "", daily_start |-> <<0, 0>>, daily_end |-> <<0, 0>>]

NoShown ==
    [worker |-> NoWorker, date |-> 0, dur |-> 0, rows |-> <<>>, sha |-> <<>>,
     slots |-> <<>>, avail |-> <<>>]

Init ==
    /\ bookings = <<>>
    /\ users = <<>>
    /\ workers = <<>>
    /\ now = 0
    /\ calls = 0
    /\ op = [c \in Clients |-> NoOp]
    /\ shown = [c \in Clients |-> NoShown]
    /\ seen = [c \in Clients |-> <<>>]
    /\ outbox = <<>>
    /\ pc = [c \in Clients |-> "idle"]
    /\ req = [c \in Clients |-> NoReq]
    /\ loc = [c \in Clients |-> NoLoc]
    /\ result = [c \in Clients |-> NoResult]

\* the Book button of page_browse_and_book
Call(c) ==
    /\ \E worker \in Workers, date \in Dates, start \in StartTimes, dur \in Durations :
          Validate(c, auth_user(c), worker, date, start, dur)
    /\ UNCHANGED seen

\* the same, the sha returned by the read of the re-validation (dropped at
\* line 180) being kept on record
TrackedCall(c) ==
    /\ \E worker \in Workers, date \in Dates, start \in StartTimes, dur \in Durations :
          Validate(c, auth_user(c), worker, date, start, dur)
    /\ seen' = [seen EXCEPT ![c] = BlobSha(bookings)]

\* create_booking called with arguments the page would not pass
DirectCall(c) ==
    /\ \E worker \in Workers, date \in Dates, start \in StartTimes, dur \in AnyDurations :
          Validate(c, auth_user(c), worker, date, start, dur)
    /\ UNCHANGED seen

Deliver(c) == \E outcome \in {"delivered", "failed", "skipped"} : Notify(c, outcome)

Edit == \E i \in 1..Len(bookings) : Cancel(i)

Next ==
    \/ \E c \in Clients : Call(c)
    \/ \E c \in Clients : Load(c)
    \/ \E c \in Clients : Save(c)
    \/ \E c \in Clients : Deliver(c)
    \/ Edit

Spec == Init /\ [][Next]_vars

\* Sessions served one after the other: a call starts, and the file is edited,
\* only while no other call is in progress
Quiet(cs) == \A c \in cs : pc[c] \in {"idle", "done"}

SeqNext ==
    \/ \E c \in Clients : Quiet(Clients \ {c}) /\ Call(c)
    \/ \E c \in Clients : Load(c)
    \/ \E c \in Clients : Save(c)
    \/ \E c \in Clients : Deliver(c)
    \/ Quiet(Clients) /\ Edit

SeqSpec == Init /\ [][SeqNext]_vars

\* The clock need not have moved on between two readings
IdNext ==
    \/ \E c \in Clients : Call(c)
    \/ \E c \in Clients : Load(c)
    \/ \E c \in Clients : LoadSameInstant(c)
    \/ \E c \in Clients : Save(c)
    \/ \E c \in Clients : Deliver(c)
    \/ Edit

IdSpec == Init /\ [][IdNext]_vars

\* The calls with the sha of the validating read on record
TokenNext ==
    \/ \E c \in Clients : TrackedCall(c)
    \/ \E c \in Clients : Load(c)
    \/ \E c \in Clients : Save(c)
    \/ \E c \in Clients : Deliver(c)
    \/ Edit

TokenSpec == Init /\ [][TokenNext]_vars

\* create_booking as a function open to any caller
ApiNext ==
    \/ \E c \in Clients : DirectCall(c)
    \/ \E c \in Clients : Load(c)
    \/ \E c \in Clients : Save(c)
    \/ \E c \in Clients : Deliver(c)
    \/ Edit

ApiSpec == Init /\ [][ApiNext]_vars

----------------------------------------------------------------------------
(* Accounts and worker profiles: register_user and upsert_worker *)

\* what register_user and upsert_worker never touch
booking_state == <<bookings, outbox, now, pc, req, loc, result, shown, seen>>

\* usernames typed into the sign-up form
Usernames == {"asha", "Asha", "ravi"}

\* times of day the profile form may hold, in minutes
ProfileTimes == {540, 1080}

\* lines 72-76: the server refuses a write whose sha is not the sha of the file
gh_put_conflict(stored, sha) == sha # BlobSha(stored)

\* the name is compared as typed
UsernameTaken_mut(rows, username) ==
    \E i \in 1..Len(rows) : rows[i].username = username

\* line 106
UsernameTaken(rows, username) ==
    \E i \in 1..Len(rows) : Lower(rows[i].username) = Lower(username)

\* lines 109-116; the e-mail address, the password hash and the creation
\* time play no part in what follows
UserRow(username) == [username |-> username, role |-> "customer"]

\* lines 105-116: read, duplicate test, append in memory
RegisterLoad(c, username) ==
    /\ op[c].pc \in {"idle", "done"}
    /\ calls < MaxCalls
    /\ calls' = calls + 1
    /\ IF UsernameTaken(users, username)
       THEN op' = [op EXCEPT ![c] =
                      [pc |-> "done", kind |-> "register", name |-> username,
                       rows |-> <<>>, sha |-> <<>>, res |-> "exists"]]
       ELSE op' = [op EXCEPT ![c] =
                      [pc |-> "save", kind |-> "register", name |-> username,
                       rows |-> Append(users, UserRow(username)),
                       sha |-> BlobSha(users), res |-> "none"]]
    /\ UNCHANGED <<users, workers>>
    /\ UNCHANGED booking_state

\* lines 117-118: save_table, then the success reply
RegisterSave(c) ==
    /\ op[c].pc = "save" /\ op[c].kind = "register"
    /\ IF gh_put_conflict(users, op[c].sha)
       THEN /\ op' = [op EXCEPT ![c].pc = "done", ![c].res = "raised",
                                ![c].rows = <<>>, ![c].sha = <<>>]
            /\ UNCHANGED users
       ELSE /\ users' = op[c].rows
            /\ op' = [op EXCEPT ![c].pc = "done", ![c].res = "created",
                                ![c].rows = <<>>, ![c].sha = <<>>]
    /\ UNCHANGED <<workers, calls>>
    /\ UNCHANGED booking_state

\* lines 450-459: the profile of the Save Profile button
Profile(c, start, end) ==
    [username |-> auth_user(c).username,
     daily_start |-> Strftime(start), daily_end |-> Strftime(end)]

\* lines 137-142: the first row of that username is replaced, or the profile
\* is appended
Upserted(rows, profile) ==
    LET hits == {i \in 1..Len(rows) : Lower(rows[i].username) = Lower(profile.username)}
    IN  IF hits = {} THEN Append(rows, profile)
        ELSE LET first == CHOOSE i \in hits : \A j \in hits : i <= j
             IN  [rows EXCEPT ![first] = profile]

\* lines 136-142: read and change in memory
UpsertLoad(c, start, end) ==
    /\ op[c].pc \in {"idle", "done"}
    /\ calls < MaxCalls
    /\ calls' = calls + 1
    /\ op' = [op EXCEPT ![c] =
                 [pc |-> "save", kind |-> "upsert", name |-> auth_user(c).username,
                  rows |-> Upserted(workers, Profile(c, start, end)),
                  sha |-> BlobSha(workers), res |-> "none"]]
    /\ UNCHANGED <<users, workers>>
    /\ UNCHANGED booking_state

\* lines 140 and 143: save_table
UpsertSave(c) ==
    /\ op[c].pc = "save" /\ op[c].kind = "upsert"
    /\ IF gh_put_conflict(workers, op[c].sha)
       THEN /\ op' = [op EXCEPT ![c].pc = "done", ![c].res = "raised",
                                ![c].rows = <<>>, ![c].sha = <<>>]
            /\ UNCHANGED workers
       ELSE /\ workers' = op[c].rows
            /\ op' = [op EXCEPT ![c].pc = "done", ![c].res = "saved",
                                ![c].rows = <<>>, ![c].sha = <<>>]
    /\ UNCHANGED <<users, calls>>
    /\ UNCHANGED booking_state

\* the Create account button
SignUp(c) == \E username \in Usernames : RegisterLoad(c, username)

\* the Save Profile button
SaveProfile(c) == \E start \in ProfileTimes, end \in ProfileTimes : UpsertLoad(c, start, end)

AccountNext ==
    \/ \E c \in Clients : SignUp(c)
    \/ \E c \in Clients : RegisterSave(c)
    \/ \E c \in Clients : SaveProfile(c)
    \/ \E c \in Clients : UpsertSave(c)

AccountSpec == Init /\ [][AccountNext]_vars

----------------------------------------------------------------------------
(* The availability query of the booking page *)

\* profiles the worker list of the page may hold
QueryWorkers ==
    { [username |-> "Ann",  daily_start |-> <<22, 30>>, daily_end |-> <<23, 30>>],
      [username |-> "cara", daily_start |-> <<9, 0>>, daily_end |-> <<18, 0>>],
      [username |-> "dev",  daily_start |-> <<9, 0>>, daily_end |-> <<18, 0>>],
      [username |-> "eve",  daily_start |-> <<9, 0>>, daily_end |-> <<10, 30>>],
      [username |-> "finn", daily_start |-> <<9, 0>>, daily_end |-> <<9, 15>>] }

\* durations of the selectbox, in minutes
QueryDurations == Durations \cup {120}

\* a row as create_booking stores it
BookedRow(id, user, worker, from, to, status) ==
    [id |-> id, user |-> user, worker |-> worker, date |-> IsoFormat(1),
     start |-> Strftime(from), end |-> Strftime(to), status |-> status]

\* contents of data/bookings.json when the page is opened
SampleStores ==
    { <<>>,
      << BookedRow(1, "asha", "cara", 600, 660, "confirmed") >>,
      << BookedRow(1, "asha", "cara", 600, 660, "cancelled"),
         BookedRow(2, "ravi", "cara", 630, 720, "confirmed") >>,
      << BookedRow(1, "ravi", "ann", 1380, 1410, "confirmed") >>,
      << BookedRow(1, "asha", "dev", 540, 570, "confirmed") >> }

\* the query tidies the file: it writes the rows back without the cancelled ones
Query_mut(c, worker, date, dur) ==
    /\ shown' = [shown EXCEPT ![c] =
                    [worker |-> worker, date |-> date, dur |-> dur,
                     rows |-> bookings, sha |-> BlobSha(bookings),
                     slots |-> generate_slots(worker),
                     avail |-> available_start_slots(bookings, worker, date, dur)]]
    /\ bookings' = SelectSeq(bookings, LAMBDA b : b.status # "cancelled")
    /\ UNCHANGED <<users, workers, outbox, now, calls, pc, req, loc, result, op, seen>>

\* line 374: the page computes the start times it offers; the rows are read
\* inside worker_booked_spans (line 180)
Query(c, worker, date, dur) ==
    /\ shown' = [shown EXCEPT ![c] =
                    [worker |-> worker, date |-> date, dur |-> dur,
                     rows |-> bookings, sha |-> BlobSha(bookings),
                     slots |-> generate_slots(worker),
                     avail |-> available_start_slots(bookings, worker, date, dur)]]
    /\ UNCHANGED <<bookings, users, workers, outbox, now, calls, pc, req, loc, result, op, seen>>

Browse(c) ==
    \E worker \in QueryWorkers, date \in Dates, dur \in QueryDurations :
        Query(c, worker, date, dur)

QueryInit ==
    /\ bookings \in SampleStores
    /\ users = <<>>
    /\ workers = <<>>
    /\ now = 0
    /\ calls = 0
    /\ op = [c \in Clients |-> NoOp]
    /\ shown = [c \in Clients |-> NoShown]
    /\ seen = [c \in Clients |-> <<>>]
    /\ outbox = <<>>
    /\ pc = [c \in Clients |-> "idle"]
    /\ req = [c \in Clients |-> NoReq]
    /\ loc = [c \in Clients |-> NoLoc]
    /\ result = [c \in Clients |-> NoResult]

QueryNext ==
    \/ \E c \in Clients : Browse(c)
    \/ Edit

QuerySpec == QueryInit /\ [][QueryNext]_vars

----------------------------------------------------------------------------
(* Vocabulary of the properties *)

Rows == {bookings[i] : i \in 1..Len(bookings)}

Active(b) == b.status # "cancelled"

SameCalendar(a, b) == Lower(a.worker) = Lower(b.worker) /\ a.date = b.date

SameSlot(a, b) == SameCalendar(a, b) /\ a.start = b.start /\ a.end = b.end

\* the time the appointment of a row occupies: from its start to its end, the
\* end lying on the next day when it is not after the start
FromOf(b) == ParseHM(b.start)

ToOf(b) ==
    IF ParseHM(b.end) > ParseHM(b.start) THEN ParseHM(b.end)
    ELSE ParseHM(b.end) + MinutesPerDay

Clash(a, b) == SameCalendar(a, b) /\ FromOf(a) < ToOf(b) /\ FromOf(b) < ToOf(a)

DurOf(b) == (ParseHM(b.end) - ParseHM(b.start)) % MinutesPerDay

DateOf(b) == CHOOSE d \in Dates : IsoFormat(d) = b.date

\* the row is in the stored collection, whatever its status now
Stored(row) == \E i \in 1..Len(bookings) : [bookings[i] EXCEPT !.status = row.status] = row

InCall(c) == pc[c] \in {"load", "save", "notify"}

Succeeded(c) == pc[c] = "done" /\ result[c].kind = "returned" /\ result[c].ok

Unavailable == [kind |-> "returned", ok |-> FALSE, msg |-> "Selected slot is no longer available."]

----------------------------------------------------------------------------
(* Properties *)

\* C1: after any sequence of create_booking calls served one after the other,
\* no two non-cancelled bookings of the same worker and date occupy
\* overlapping half-open intervals; intervals that touch are allowed.
C1_NoDoubleBooking ==
    \A i, j \in 1..Len(bookings) :
        (i < j /\ Active(bookings[i]) /\ Active(bookings[j]))
            => ~Clash(bookings[i], bookings[j])

\* C2: of two calls in flight together for the identical slot at most one
\* reports success, so that never two non-cancelled bookings of that slot are
\* stored with both sessions told that they have it.
C2_OneWinnerPerSlot ==
    \A c, d \in Clients :
        (/\ c # d
         /\ Succeeded(c) /\ Succeeded(d)
         /\ SameSlot(loc[c].row, loc[d].row)
         /\ ParseHM(loc[c].row.start) < ParseHM(loc[c].row.end))
            => ~(loc[c].row \in Rows /\ loc[d].row \in Rows)

\* C3: for a duration that is a multiple of 30 minutes, every start time t in
\* the result of available_start_slots lies in the worker's window [S, E)
\* together with its whole appointment: S <= t and t + D <= E.
C3_SlotsFitWindow ==
    \A c \in Clients :
        (pc[c] = "load" /\ req[c].dur % HALF_HOUR = 0) =>
            LET range == worker_daily_range(WorkerOf(req[c]))
            IN  \A t \in Range(loc[c].avail) :
                    range[1] <= t /\ t + req[c].dur <= range[2]

\* C4: a call whose start time is not in the availability recomputed at
\* commit time returns failure (slot unavailable) in that very step: nothing
\* is written, the collection is unchanged and no mail is sent.
C4_UnavailableNoWrite ==
    [][\A c \in Clients, w \in Workers, d \in Dates, t \in StartTimes, D \in Durations :
          (/\ Validate(c, auth_user(c), w, d, t, D)
           /\ t \notin Range(available_start_slots(bookings, w, d, D)))
              => /\ pc'[c] = "done"
                 /\ result'[c] = Unavailable
                 /\ bookings' = bookings
                 /\ outbox' = outbox]_vars

C4_Witness ==
    \E c \in Clients :
        pc[c] = "done" /\ result[c] = Unavailable /\ bookings # <<>>

\* C5: when the collection has changed between the load_bookings read of a
\* call and its save_table write, the write raises instead of overwriting:
\* the stored collection stays as the other writer left it, the call does
\* not report success and no mail is sent.
C5_StaleWriteFails ==
    [][\A c \in Clients :
          (pc[c] = "save" /\ pc'[c] # "save" /\ loc[c].sha # BlobSha(bookings))
              => /\ bookings' = bookings
                 /\ pc'[c] = "done"
                 /\ result'[c].kind = "raised"
                 /\ ~result'[c].ok
                 /\ outbox' = outbox]_vars

C5_Witness ==
    \E c \in Clients :
        pc[c] = "done" /\ result[c].kind = "raised" /\ bookings # <<>>

\* C6: once the write has committed the call returns success whatever
\* becomes of the mail (delivered, failed, not attempted); the booking stays
\* stored, and the message carries the "Email not sent" qualifier exactly
\* when no mail was delivered.
C6_SuccessDespiteMail ==
    [][\A c \in Clients :
          (pc[c] = "notify" /\ pc'[c] # "notify")
              => /\ pc'[c] = "done"
                 /\ result'[c].kind = "returned"
                 /\ result'[c].ok
                 /\ bookings' = bookings
                 /\ Stored(loc[c].row)
                 /\ (result'[c].msg = "Booking created successfully.")
                        <=> (outbox' = Append(outbox, loc[c].row))
                 /\ (result'[c].msg # "Booking created successfully.")
                        <=> (outbox' = outbox)]_vars

C6_Witness ==
    \E c \in Clients :
        Succeeded(c) /\ loc[c].mail = "failed" /\ Stored(loc[c].row)
            /\ result[c].msg # "Booking created successfully."

\* C7: a confirmation is attempted only after the write has committed: every
\* call that is at its mail step, and every mail sent, is for a booking in
\* the stored collection.
C7_MailOnlyAfterCommit ==
    /\ \A c \in Clients : pc[c] = "notify" => Stored(loc[c].row)
    /\ \A k \in 1..Len(outbox) : Stored(outbox[k])

C7_Witness ==
    /\ Len(outbox) > 0
    /\ \E c \in Clients : pc[c] = "notify"

\* C8: a booking whose status has been set to cancelled, and which no other
\* non-cancelled booking of the worker and date overlaps, has its start time
\* back in available_start_slots for the same worker, date and duration; a
\* later create_booking for that slot passes re-validation and, served without
\* interference, returns success.
Freed(b) ==
    /\ b.status = "cancelled"
    /\ \A o \in Rows : Active(o) => ~Clash(b, o)

C8_CancelFreesSlot ==
    /\ [](\A b \in Rows :
            Freed(b) => FromOf(b) \in
                Range(available_start_slots(bookings, WorkerOf(b), DateOf(b), DurOf(b))))
    /\ [][\A c \in Clients, b \in Rows :
            (Freed(b) /\ Validate(c, auth_user(c), WorkerOf(b), DateOf(b), FromOf(b), DurOf(b)))
                => pc'[c] = "load"]_vars
    /\ [][\A c \in Clients :
            (InCall(c) /\ pc'[c] = "done") => (result'[c].kind = "returned" /\ result'[c].ok)]_vars

C8_Witness ==
    \E i, j \in 1..Len(bookings) :
        /\ i < j
        /\ bookings[i].status = "cancelled"
        /\ bookings[j].status = "confirmed"
        /\ SameSlot(bookings[i], bookings[j])
        /\ \E c \in Clients : Succeeded(c) /\ loc[c].row = bookings[j]

\* C9: a request with malformed input (a duration that is not a multiple of
\* 30 minutes, or an end time past midnight) is rejected: it never gets past
\* the re-validation at the head of create_booking, so no booking is written.
C9_MalformedRejected ==
    \A c \in Clients :
        InCall(c) =>
            /\ req[c].dur % HALF_HOUR = 0
            /\ req[c].start + req[c].dur <= MinutesPerDay

\* C10: every stored booking has end - start equal to a positive multiple of
\* 30 minutes; its end time is later than its start time on the same date.
C10_PositiveHalfHours ==
    \A b \in Rows :
        /\ ParseHM(b.end) > ParseHM(b.start)
        /\ (ParseHM(b.end) - ParseHM(b.start)) % HALF_HOUR = 0

\* C11: booking records are never lost or edited: a record that is in the
\* stored collection is in it after every later step, at its place, with the
\* same id, customer, worker, date, start and end.
C11_RecordsKept ==
    [][/\ Len(bookings') >= Len(bookings)
       /\ \A i \in 1..Len(bookings) :
              /\ i <= Len(bookings')
              /\ [bookings'[i] EXCEPT !.status = bookings[i].status] = bookings[i]]_vars

\* two sessions have committed one after the other and both records are stored
C11_Witness ==
    /\ Len(bookings) = 2
    /\ bookings[1].user # bookings[2].user
    /\ \A c \in Clients : Succeeded(c)

\* C12: every record is created with status confirmed, the status of a stored
\* record is always confirmed or cancelled, and a cancelled record never
\* becomes confirmed again.
C12_StatusLifecycle ==
    [][/\ \A i \in 1..Len(bookings') :
              /\ bookings'[i].status \in {"confirmed", "cancelled"}
              /\ i > Len(bookings) => bookings'[i].status = "confirmed"
       /\ \A b \in Rows, i \in 1..Len(bookings') :
              (b.status = "cancelled" /\ bookings'[i].id = b.id)
                  => bookings'[i].status = "cancelled"]_vars

\* a record was cancelled and a record created after it is confirmed
C12_Witness ==
    /\ Len(bookings) = 2
    /\ bookings[1].status = "cancelled"
    /\ bookings[2].status = "confirmed"

\* the query of session c has run
Asked(c) == shown[c].dur > 0

\* the places of the non-cancelled bookings of the worker and date of the
\* query of session c, in the rows it read
BookedAt(c) ==
    { i \in 1..Len(shown[c].rows) :
        /\ Lower(shown[c].rows[i].worker) = Lower(shown[c].worker.username)
        /\ shown[c].rows[i].date = IsoFormat(shown[c].date)
        /\ Active(shown[c].rows[i]) }

WindowOf(c) == <<ParseHM(shown[c].worker.daily_start), ParseHM(shown[c].worker.daily_end)>>

\* C13: back-to-back bookings are permitted: when the worker has one confirmed
\* booking [a, b) inside the window, on the grid, the half-hour availability
\* holds the slot starting at a - 30min and the slot starting at b wherever
\* these are grid slots, and holds no slot t with a <= t < b.
C13_BackToBack ==
    \A c \in Clients :
        (Asked(c) /\ shown[c].dur = HALF_HOUR /\ Cardinality(BookedAt(c)) = 1) =>
            LET b == shown[c].rows[CHOOSE i \in BookedAt(c) : TRUE]
                S == WindowOf(c)[1]
                E == WindowOf(c)[2]
            IN  (S <= FromOf(b) /\ FromOf(b) < ToOf(b) /\ ToOf(b) <= E) =>
                    /\ FromOf(b) - HALF_HOUR >= S
                          => (FromOf(b) - HALF_HOUR) \in Range(shown[c].avail)
                    /\ ToOf(b) + HALF_HOUR <= E
                          => ToOf(b) \in Range(shown[c].avail)
                    /\ \A t \in Range(shown[c].avail) : ~(FromOf(b) <= t /\ t < ToOf(b))

\* the half-hour query of a worker whose one booking, next to a cancelled one,
\* has a grid slot before it and a grid slot after it
C13_Witness ==
    \E c \in Clients :
        /\ Asked(c) /\ shown[c].dur = HALF_HOUR /\ Cardinality(BookedAt(c)) = 1
        /\ \E i \in 1..Len(shown[c].rows) : ~Active(shown[c].rows[i])
        /\ LET b == shown[c].rows[CHOOSE i \in BookedAt(c) : TRUE]
           IN  /\ WindowOf(c)[1] <= FromOf(b) - HALF_HOUR
               /\ ToOf(b) + HALF_HOUR <= WindowOf(c)[2]
               /\ (FromOf(b) - HALF_HOUR) \in Range(shown[c].avail)
               /\ ToOf(b) \in Range(shown[c].avail)

\* C14: with no non-cancelled booking of the worker and date,
\* available_start_slots returns, in grid order, exactly the grid slots t with
\* t + D <= E, and the empty sequence when D exceeds the window length.
C14_FreeDayAvailability ==
    \A c \in Clients :
        (Asked(c) /\ BookedAt(c) = {}) =>
            LET Fits(t) == t + shown[c].dur <= WindowOf(c)[2]
            IN  shown[c].avail = SelectSeq(shown[c].slots, Fits)

\* C17: generate_slots returns start, start+30min, start+60min, ... up to the
\* last t with t + 30min <= window end, strictly ascending; it is empty when
\* the window is shorter than 30 minutes; two workers with the same window get
\* the same sequence.
C17_GridSlots ==
    \A c \in Clients :
        Asked(c) =>
            LET S == WindowOf(c)[1]
                E == WindowOf(c)[2]
                s == shown[c].slots
                n == IF E - S >= HALF_HOUR THEN (E - S) \div HALF_HOUR ELSE 0
            IN  /\ Len(s) = n
                /\ \A i \in 1..Len(s) : s[i] = S + (i - 1) * HALF_HOUR
                /\ \A i \in 1..Len(s) : s[i] + HALF_HOUR <= E
                /\ n > 0 => s[n] + 2 * HALF_HOUR > E
                /\ \A i, j \in 1..Len(s) : i < j => s[i] < s[j]
                /\ \A d \in Clients :
                      (Asked(d) /\ WindowOf(d) = WindowOf(c)) => shown[d].slots = s

\* one session was shown the grid of a worker's window, the other that of a
\* worker of another name with the same window
C17_Witness ==
    \/ \E c, d \in Clients :
          /\ Asked(c) /\ Asked(d)
          /\ shown[c].worker.username # shown[d].worker.username
          /\ WindowOf(c) = WindowOf(d)
          /\ Len(shown[c].slots) > 2

\* C18: available_start_slots is a read-only query: a call leaves the users,
\* workers and bookings collections and their version tokens as they are, and
\* returns what an earlier call with the same arguments returned from the same
\* state of the booking collection.
C18_QueryReadOnly ==
    [][\A c \in Clients :
          shown'[c] # shown[c] =>
              /\ UNCHANGED <<bookings, users, workers>>
              /\ BlobSha(bookings') = BlobSha(bookings)
              /\ \A e \in Clients :
                    (/\ shown[e].worker = shown'[c].worker
                     /\ shown[e].date = shown'[c].date
                     /\ shown[e].dur = shown'[c].dur
                     /\ shown[e].sha = BlobSha(bookings))
                        => shown'[c].avail = shown[e].avail]_vars

\* both sessions have asked the same question of a collection that holds a
\* cancelled record, and were given the same non-empty answer
C18_Witness ==
    /\ \A c \in Clients : Asked(c) /\ shown[c].avail # <<>>
    /\ shown["c1"] = shown["c2"]
    /\ shown["c1"].sha = BlobSha(bookings)
    /\ \E i \in 1..Len(bookings) : ~Active(bookings[i])

\* C15: every worker profile stored by a profile save has its daily start
\* strictly earlier than its daily end.
C15_WindowOrdered ==
    \A i \in 1..Len(workers) :
        ParseHM(workers[i].daily_start) < ParseHM(workers[i].daily_end)

\* C19: under any interleaving of register_user calls of independent
\* sessions the users collection never holds two accounts whose usernames
\* are equal ignoring letter case, an account once stored stays stored, and
\* the account of a registration that reported success is stored.
C19_UniqueUsernames ==
    /\ [](\A i, j \in 1..Len(users) :
            i # j => Lower(users[i].username) # Lower(users[j].username))
    /\ [](\A c \in Clients :
            (op[c].kind = "register" /\ op[c].res = "created")
                => \E i \in 1..Len(users) : users[i].username = op[c].name)
    /\ [][/\ Len(users') >= Len(users)
          /\ \A i \in 1..Len(users) : users'[i] = users[i]]_vars

\* two registrations ran interleaved under names that differ in letter case
\* only: one was stored, the write of the other was refused
C19_Witness ==
    \E c, d \in Clients :
        /\ op[c].kind = "register" /\ op[c].res = "created"
        /\ op[d].kind = "register" /\ op[d].res = "raised"
        /\ op[c].name # op[d].name
        /\ Lower(op[c].name) = Lower(op[d].name)
        /\ Len(users) = 1

\* C16: no two booking records of the collection ever share the same id, also
\* when their ids were assigned by calls of different sessions running
\* together.
C16_UniqueIds ==
    \A i, j \in 1..Len(bookings) : i # j => bookings[i].id # bookings[j].id

\* C20: a create_booking write commits only if the booking collection has not
\* changed since the read on which the slot was validated: the sha sent with
\* the write is the sha of the validated state.
C20_CommitOnValidatedState ==
    [][\A c \in Clients :
          (pc[c] = "save" /\ pc'[c] = "notify")
              => /\ loc[c].sha = seen[c]
                 /\ seen[c] = BlobSha(bookings)]_vars

====
